---- MODULE Spec2Model ----
(***************************************************************************)
(* ToDo-Score-App: the month-sharded day-log store with its one-time       *)
(* v1 -> v2 migration (infra/storage.ts), the Today view's persistDayLog   *)
(* (pages/Today.tsx) and the scoring engine (domain/scoring.ts).           *)
(*                                                                         *)
(* localStorage is a function from the keys that exist to the text stored  *)
(* under them.  A stored text is a record: the empty string, a text that   *)
(* is not JSON, or a JSON text with its layout (fmt) and the value it      *)
(* denotes.  JSON.stringify always produces the "compact" layout; a text   *)
(* written by somebody else may have another one.                          *)
(***************************************************************************)
EXTENDS Integers, Sequences, FiniteSets, TLC

VARIABLES localStorage, migratedOnce, now, selectedDay, last, calls, views, firstCreatedAt

vars == <<localStorage, migratedOnce, now, selectedDay, last, calls, views, firstCreatedAt>>

----------------------------------------------------------------------------
(* Bounds *)

MaxCalls == 2
MaxClock == 3

----------------------------------------------------------------------------
(* Strings *)

Digits == "-0123456789"

RECURSIVE CharCodeFrom(_, _)
CharCodeFrom(c, i) ==
  IF i > Len(Digits) THEN 0
  ELSE IF SubSeq(Digits, i, i) = c THEN i
  ELSE CharCodeFrom(c, i + 1)

CharCode(c) == CharCodeFrom(c, 1)

\* a < b for strings, as JavaScript compares them (code unit by code unit)
RECURSIVE StrLess(_, _)
StrLess(a, b) ==
  IF Len(b) = 0 THEN FALSE
  ELSE IF Len(a) = 0 THEN TRUE
  ELSE IF SubSeq(a, 1, 1) = SubSeq(b, 1, 1)
       THEN StrLess(SubSeq(a, 2, Len(a)), SubSeq(b, 2, Len(b)))
       ELSE CharCode(SubSeq(a, 1, 1)) < CharCode(SubSeq(b, 1, 1))

startsWith(k, p) == Len(k) >= Len(p) /\ SubSeq(k, 1, Len(p)) = p

\* String.prototype.slice(from) with a 0-based index
sliceFrom(s, from) == IF from >= Len(s) THEN "" ELSE SubSeq(s, from + 1, Len(s))

\* String.prototype.slice(0, to)
slice0(s, to) == IF Len(s) <= to THEN s ELSE SubSeq(s, 1, to)

isSpace(c) == c = " "

RECURSIVE trimStart(_)
trimStart(s) ==
  IF Len(s) = 0 THEN s
  ELSE IF isSpace(SubSeq(s, 1, 1)) THEN trimStart(SubSeq(s, 2, Len(s)))
  ELSE s

RECURSIVE trimEnd(_)
trimEnd(s) ==
  IF Len(s) = 0 THEN s
  ELSE IF isSpace(SubSeq(s, Len(s), Len(s))) THEN trimEnd(SubSeq(s, 1, Len(s) - 1))
  ELSE s

trim(s) == trimEnd(trimStart(s))

----------------------------------------------------------------------------
(* JavaScript values and JSON texts *)

null == [type |-> "null"]
jsNumber(n) == [type |-> "number", n |-> n]
jsString(str) == [type |-> "string", str |-> str]
jsArray(items) == [type |-> "array", items |-> items]
jsObject(map) == [type |-> "object", map |-> map]

typeof(v) == IF v.type \in {"null", "array", "object"} THEN "object" ELSE v.type

truthy(v) ==
  CASE v.type = "null" -> FALSE
    [] v.type = "number" -> v.n # 0
    [] v.type = "string" -> v.str # ""
    [] OTHER -> TRUE

EmptyString == [kind |-> "empty"]
InvalidText == [kind |-> "invalid"]
JsonText(fmt, v) == [kind |-> "json", fmt |-> fmt, value |-> v]

JSONstringify(v) == JsonText("compact", v)

EmptyMap == <<>>

\* the decimal text of an array index (arrays here have at most 10 items)
indexKey(i) == SubSeq("0123456789", i, i)

\* Object.entries as a function key -> value: the properties of an object,
\* the items of an array under their indices "0", "1", ...
entriesOf(v) ==
  CASE v.type = "object" -> v.map
    [] v.type = "array" -> [k \in {indexKey(i) : i \in DOMAIN v.items} |->
                              v.items[CHOOSE i \in DOMAIN v.items : indexKey(i) = k]]
    [] OTHER -> EmptyMap

----------------------------------------------------------------------------
(* localStorage *)

getItem(ls, k) == IF k \in DOMAIN ls THEN ls[k] ELSE null

setItem(ls, k, text) == [x \in DOMAIN ls \cup {k} |-> IF x = k THEN text ELSE ls[x]]

removeItem(ls, k) == [x \in DOMAIN ls \ {k} |-> ls[x]]

KEYS_tasks == "tasks_v1"
KEYS_dayLogsV1 == "daylogs_v1"
KEYS_dayLogsV1Backup == "daylogs_v1_backup"
V2_PREFIX == "daylogs_v2_"

\* a catch that answers an empty object instead of null
safeJsonParseLenient(raw) ==
  IF raw = null \/ raw = EmptyString THEN null
  ELSE IF raw.kind = "json" THEN raw.value
  ELSE jsObject(EmptyMap)

safeJsonParse(raw) ==
  IF raw = null \/ raw = EmptyString THEN null
  ELSE IF raw.kind = "json" THEN raw.value
  ELSE null

\* the year taken for the month
toMonthISOYear(day) == slice0(day, 4)

toMonthISO(day) == slice0(day, 7)

v2Key(month) == V2_PREFIX \o month

loadMonthMap(ls, month) ==
  LET data == safeJsonParse(getItem(ls, v2Key(month)))
  IN IF truthy(data) /\ typeof(data) = "object" THEN entriesOf(data) ELSE EmptyMap

saveMonthMap(ls, month, map) == setItem(ls, v2Key(month), JSONstringify(jsObject(map)))

\* the comparator with its signs swapped: ascending order
RECURSIVE sortAsc(_)
sortAsc(S) ==
  IF S = {} THEN <<>>
  ELSE LET m == CHOOSE x \in S : \A y \in S : ~StrLess(y, x)
       IN <<m>> \o sortAsc(S \ {m})

RECURSIVE sortDesc(_)
sortDesc(S) ==
  IF S = {} THEN <<>>
  ELSE LET m == CHOOSE x \in S : \A y \in S : ~StrLess(x, y)
       IN <<m>> \o sortDesc(S \ {m})

\* the keys of every version of the day-log store taken for shards
listV2MonthsAnyVersion(ls) ==
  sortDesc({sliceFrom(k, Len(V2_PREFIX)) : k \in {x \in DOMAIN ls : startsWith(x, "daylogs_v")}})

listV2Months(ls) ==
  sortDesc({sliceFrom(k, Len(V2_PREFIX)) : k \in {x \in DOMAIN ls : startsWith(x, V2_PREFIX)}})

----------------------------------------------------------------------------
(* Migration v1 -> v2.  A store state is [ls, migratedOnce]. *)

\* {...a, ...b}: b wins on the keys both have
spread(a, b) == [k \in DOMAIN a \cup DOMAIN b |-> IF k \in DOMAIN b THEN b[k] ELSE a[k]]

\* the per-month buckets of a date -> log map
bucketOf(map) ==
  [m \in {toMonthISO(d) : d \in DOMAIN map} |->
     [d \in {x \in DOMAIN map : toMonthISO(x) = m} |-> map[d]]]

\* a text read from storage is falsy when the key is absent or the text empty
noText(raw) == raw = null \/ raw = EmptyString

\* the backup written without looking for an earlier one
backupAlways(ls, v1Raw) == setItem(ls, KEYS_dayLogsV1Backup, v1Raw)

backupIfMissing(ls, v1Raw) ==
  IF noText(getItem(ls, KEYS_dayLogsV1Backup))
  THEN setItem(ls, KEYS_dayLogsV1Backup, v1Raw)
  ELSE ls

\* the merge with the spread operands swapped: the legacy record wins
mergeMonthLegacyWins(map, current) == spread(current, map)

\* { ...map, ...current }: the shard wins
mergeMonth(map, current) == spread(map, current)

\* the second loop of the migration: every bucket merged into its shard
RECURSIVE mergeBuckets(_, _)
mergeBuckets(ls, bucket) ==
  IF DOMAIN bucket = {} THEN ls
  ELSE LET month == CHOOSE m \in DOMAIN bucket : TRUE
           merged == mergeMonth(bucket[month], loadMonthMap(ls, month))
           rest == [m \in DOMAIN bucket \ {month} |-> bucket[m]]
       IN mergeBuckets(saveMonthMap(ls, month, merged), rest)

\* every bucket merged into its shard instead of replacing it
saveBucketsMerging(ls, bucket) == mergeBuckets(ls, bucket)

\* the loop of saveDayLogMap: every bucket replaces its shard
RECURSIVE saveBuckets(_, _)
saveBuckets(ls, bucket) ==
  IF DOMAIN bucket = {} THEN ls
  ELSE LET month == CHOOSE m \in DOMAIN bucket : TRUE
           rest == [m \in DOMAIN bucket \ {month} |-> bucket[m]]
       IN saveBuckets(saveMonthMap(ls, month, bucket[month]), rest)

\* the legacy blob is left where it is
keepLegacy(ls) == ls

dropLegacy(ls) == removeItem(ls, KEYS_dayLogsV1)

migrateV1ToV2IfNeeded(st) ==
  IF st.migratedOnce THEN st
  ELSE
    LET ls == st.ls
        v1Raw == getItem(ls, KEYS_dayLogsV1)
        v1 == safeJsonParse(v1Raw)
        done(x) == [ls |-> x, migratedOnce |-> TRUE]
    IN IF noText(v1Raw) THEN done(ls)
       ELSE IF ~truthy(v1) \/ typeof(v1) # "object" THEN done(ls)
       ELSE done(dropLegacy(mergeBuckets(backupIfMissing(ls, v1Raw), bucketOf(entriesOf(v1)))))

----------------------------------------------------------------------------
(* Tasks *)

\* the value of a property that the object does not have
undefined == [type |-> "undefined"]

\* a JSON number with a fractional part: n + tenths / 10, tenths in 1..9
jsFraction(n, tenths) == [type |-> "number", n |-> n, tenths |-> tenths]

\* what Number() and Math.round() answer: NaN, or the number n + tenths / 10
NaN == [nan |-> TRUE]
finite(n, tenths) == [nan |-> FALSE, n |-> n, tenths |-> tenths]

\* the value of a text of decimal digits, -1 when another character occurs
RECURSIVE digitsValue(_, _)
digitsValue(s, acc) ==
  IF Len(s) = 0 THEN acc
  ELSE LET c == CharCode(SubSeq(s, 1, 1))
       IN IF c < 2 THEN -1 ELSE digitsValue(SubSeq(s, 2, Len(s)), acc * 10 + (c - 2))

\* Number(v) for the values a JSON text can hold
Number(v) ==
  CASE v.type = "null" -> finite(0, 0)
    [] v.type = "number" -> finite(v.n, IF "tenths" \in DOMAIN v THEN v.tenths ELSE 0)
    [] v.type = "string" ->
         LET s == trim(v.str)
         IN IF Len(s) = 0 THEN finite(0, 0)
            ELSE IF digitsValue(s, 0) >= 0 THEN finite(digitsValue(s, 0), 0)
            ELSE NaN
    [] OTHER -> NaN

\* Math.round: halves go up
MathRound(x) == IF x.nan THEN NaN ELSE finite(x.n + (IF x.tenths >= 5 THEN 1 ELSE 0), 0)

isFinite(x) == ~x.nan

\* v === k for an integer k
strictEquals(v, k) == v.type = "number" /\ "tenths" \notin DOMAIN v /\ v.n = k

clampPoints(points) ==
  LET p == points
      lo == IF p > 1 THEN p ELSE 1
  IN IF lo < 10 THEN lo ELSE 10

\* an element of the stored array is a task object, or another JSON value
isPrimitive(t) == "type" \in DOMAIN t

\* { ...t }: the own properties; a number has none
propsOf(t) == IF isPrimitive(t) THEN EmptyMap ELSE t

\* t.points, t.isCore, t.isActive
pointsOf(t) == IF "points" \in DOMAIN t THEN t.points ELSE undefined
isCoreOf(t) == "isCore" \in DOMAIN t /\ t.isCore
isActiveOf(t) == "isActive" \in DOMAIN t /\ t.isActive

\* reading a property of null throws a TypeError
throwsOn(t) == t = null

clamped(t) ==
  LET p == MathRound(Number(pointsOf(t)))
  IN clampPoints(IF isFinite(p) THEN p.n ELSE 1)

\* the first map sets changed for this task
pointsChanged(t) ==
  IF isCoreOf(t) THEN ~strictEquals(pointsOf(t), 0)
  ELSE ~strictEquals(pointsOf(t), clamped(t))

normalizeTask(t) ==
  IF isCoreOf(t)
  THEN IF ~strictEquals(pointsOf(t), 0) THEN spread(propsOf(t), [points |-> jsNumber(0)]) ELSE t
  ELSE IF ~strictEquals(pointsOf(t), clamped(t))
       THEN spread(propsOf(t), [points |-> jsNumber(clamped(t))])
       ELSE t

\* the number of active core tasks among the first i tasks
RECURSIVE coreCountUpTo(_, _)
coreCountUpTo(tasks, i) ==
  IF i = 0 THEN 0
  ELSE coreCountUpTo(tasks, i - 1) + (IF isActiveOf(tasks[i]) /\ isCoreOf(tasks[i]) THEN 1 ELSE 0)

MaxCoreActive == 5

\* the second map demotes this task
demoted(normalized, i) ==
  /\ isActiveOf(normalized[i])
  /\ isCoreOf(normalized[i])
  /\ coreCountUpTo(normalized, i) > MaxCoreActive

\* the cap applied to every active core task, the first ones included
limitCoreFromFirst(normalized) ==
  [i \in DOMAIN normalized |->
     IF isActiveOf(normalized[i]) /\ isCoreOf(normalized[i])
     THEN spread(normalized[i], [isCore |-> FALSE])
     ELSE normalized[i]]

limitCore(normalized) ==
  [i \in DOMAIN normalized |->
     IF demoted(normalized, i)
     THEN spread(normalized[i], [isCore |-> FALSE])
     ELSE normalized[i]]

\* loadTasks: whether it threw, and if not the list returned; the storage it
\* leaves
loadTasks(ls) ==
  LET data == safeJsonParse(getItem(ls, KEYS_tasks))
      tasks == IF data.type = "array" THEN data.items ELSE <<>>
  IN IF \E i \in DOMAIN tasks : throwsOn(tasks[i])
     THEN [threw |-> TRUE, ls |-> ls]
     ELSE
       LET normalized == [i \in DOMAIN tasks |-> normalizeTask(tasks[i])]
           limited == limitCore(normalized)
           changed == \/ \E i \in DOMAIN tasks : pointsChanged(tasks[i])
                      \/ \E i \in DOMAIN normalized : demoted(normalized, i)
       IN [threw |-> FALSE,
           result |-> limited,
           ls |-> IF changed THEN setItem(ls, KEYS_tasks, JSONstringify(jsArray(limited))) ELSE ls]

saveTasks(ls, tasks) == setItem(ls, KEYS_tasks, JSONstringify(jsArray(tasks)))

----------------------------------------------------------------------------
(* Day logs *)

\* a default that carries timestamps
defaultDayLogStamped(date) ==
  [date |-> date, checks |-> EmptyMap, note |-> "", excludeFromStats |-> FALSE,
   createdAt |-> 0, updatedAt |-> 0]

defaultDayLog(date) ==
  [date |-> date, checks |-> EmptyMap, note |-> "", excludeFromStats |-> FALSE]

hasOwn(obj, f) == f \in DOMAIN obj

\* createdAt stamped with the clock on every write
createdAtNow(map, log, t) == t

\* prev?.createdAt ?? log.createdAt ?? now
createdAtOf(map, log, t) ==
  IF log.date \in DOMAIN map /\ hasOwn(map[log.date], "createdAt")
  THEN map[log.date].createdAt
  ELSE IF hasOwn(log, "createdAt") THEN log.createdAt
  ELSE t

\* the log spread over the record it replaces
stampOntoPrev(map, log, t) ==
  spread(spread(IF log.date \in DOMAIN map THEN map[log.date] ELSE EmptyMap, log),
         [createdAt |-> createdAtOf(map, log, t), updatedAt |-> t])

stamp(map, log, t) ==
  spread(log, [createdAt |-> createdAtOf(map, log, t), updatedAt |-> t])

loadDayLogMap(st) ==
  LET s1 == migrateV1ToV2IfNeeded(st)
      months == listV2Months(s1.ls)
      holds(d) == \E i \in DOMAIN months : d \in DOMAIN loadMonthMap(s1.ls, months[i])
      dates == UNION {DOMAIN loadMonthMap(s1.ls, months[i]) : i \in DOMAIN months}
      \* later months of the list overwrite earlier ones
      lastIdx(d) == CHOOSE i \in DOMAIN months :
                      /\ d \in DOMAIN loadMonthMap(s1.ls, months[i])
                      /\ \A j \in DOMAIN months :
                           d \in DOMAIN loadMonthMap(s1.ls, months[j]) => j <= i
  IN [st |-> s1,
      result |-> [d \in dates |-> loadMonthMap(s1.ls, months[lastIdx(d)])[d]]]

saveDayLogMap(st, map) ==
  LET s1 == migrateV1ToV2IfNeeded(st)
  IN [s1 EXCEPT !.ls = saveBuckets(s1.ls, bucketOf(map))]

listAvailableMonths(st) ==
  LET s1 == migrateV1ToV2IfNeeded(st)
  IN [st |-> s1, result |-> listV2Months(s1.ls)]

loadDayLogMapForMonth(st, month) ==
  LET s1 == migrateV1ToV2IfNeeded(st)
  IN [st |-> s1, result |-> loadMonthMap(s1.ls, month)]

getDayLog(st, date) ==
  LET s1 == migrateV1ToV2IfNeeded(st)
      map == loadMonthMap(s1.ls, toMonthISO(date))
  IN [st |-> s1,
      result |-> IF date \in DOMAIN map THEN map[date] ELSE defaultDayLog(date)]

\* the shard replaced by the one record instead of extended by it
upsertDayLogFresh(st, log, t) ==
  LET s1 == migrateV1ToV2IfNeeded(st)
      month == toMonthISO(log.date)
      map == loadMonthMap(s1.ls, month)
  IN [s1 EXCEPT !.ls = saveMonthMap(s1.ls, month, [d \in {log.date} |-> stamp(map, log, t)])]

upsertDayLog(st, log, t) ==
  LET s1 == migrateV1ToV2IfNeeded(st)
      month == toMonthISO(log.date)
      map == loadMonthMap(s1.ls, month)
      next == spread(map, [d \in {log.date} |-> stamp(map, log, t)])
  IN [s1 EXCEPT !.ls = saveMonthMap(s1.ls, month, next)]

\* the shard written back without looking for the date
deleteDayLogAlwaysWrites(st, date) ==
  LET s1 == migrateV1ToV2IfNeeded(st)
      month == toMonthISO(date)
      map == loadMonthMap(s1.ls, month)
  IN [s1 EXCEPT !.ls = saveMonthMap(s1.ls, month, [d \in DOMAIN map \ {date} |-> map[d]])]

deleteDayLog(st, date) ==
  LET s1 == migrateV1ToV2IfNeeded(st)
      month == toMonthISO(date)
      map == loadMonthMap(s1.ls, month)
  IN IF date \in DOMAIN map
     THEN [s1 EXCEPT !.ls = saveMonthMap(s1.ls, month, [d \in DOMAIN map \ {date} |-> map[d]])]
     ELSE s1

----------------------------------------------------------------------------
(* Today view *)

someChecked(checks) == \E k \in DOMAIN checks : checks[k]

\* the note compared without trim()
isEmptyDayLogUntrimmed(log) ==
  IF hasOwn(log, "excludeFromStats") /\ log.excludeFromStats THEN FALSE
  ELSE IF Len(IF hasOwn(log, "note") THEN log.note ELSE "") > 0 THEN FALSE
  ELSE ~someChecked(log.checks)

isEmptyDayLog(log) ==
  IF hasOwn(log, "excludeFromStats") /\ log.excludeFromStats THEN FALSE
  ELSE IF Len(trim(IF hasOwn(log, "note") THEN log.note ELSE "")) > 0 THEN FALSE
  ELSE ~someChecked(log.checks)

persistDayLog(st, date, log, t) ==
  IF isEmptyDayLog(log)
  THEN deleteDayLog(st, date)
  ELSE upsertDayLog(st, spread([date |-> date], log), t)

----------------------------------------------------------------------------
(* The views.  Today and Tasks are mounted together and each keeps its own  *)
(* copy of the task list; views holds both copies, the task that the Tasks  *)
(* form is editing ("" for none), the number of ids handed out, and which   *)
(* mount effect runs next.                                                  *)

NoViews == [phase |-> "unmounted", today |-> <<>>, tasks |-> <<>>, editingId |-> "", ids |-> 0]

digit(n) == SubSeq("0123456789", n + 1, n + 1)

\* Today: seedTasksIfEmpty, with Date.now() = t
seedTasksIfEmpty(tasks, t) ==
  IF Len(tasks) > 0 THEN tasks
  ELSE LET id(k) == "t_" \o digit(t) \o "_" \o digit(k)
       IN <<[id |-> id(1), title |-> "drink water", isCore |-> TRUE, isActive |-> TRUE,
             points |-> jsNumber(0)],
            [id |-> id(2), title |-> "go outside", isCore |-> TRUE, isActive |-> TRUE,
             points |-> jsNumber(0)],
            [id |-> id(3), title |-> "read one page", isCore |-> TRUE, isActive |-> TRUE,
             points |-> jsNumber(0)],
            [id |-> id(4), title |-> "stretch", isCore |-> FALSE, isActive |-> TRUE,
             points |-> jsNumber(10)],
            [id |-> id(5), title |-> "tidy one thing", isCore |-> FALSE, isActive |-> TRUE,
             points |-> jsNumber(5)]>>

\* Today: the load effect for the day selected.  An exception leaves the
\* effect where it was thrown.
todayLoad(v, st, day, t) ==
  LET r == loadTasks(st.ls)
  IN IF r.threw THEN [views |-> v, st |-> st]
     ELSE LET loadedTasks == seedTasksIfEmpty(r.result, t)
              saved == [ls |-> saveTasks(r.ls, loadedTasks), migratedOnce |-> st.migratedOnce]
          IN [views |-> [v EXCEPT !.today = loadedTasks], st |-> getDayLog(saved, day).st]

\* Tasks: the mount effect
tasksLoad(v, ls) ==
  LET r == loadTasks(ls)
  IN IF r.threw THEN [views |-> v, ls |-> ls]
     ELSE [views |-> [v EXCEPT !.tasks = r.result], ls |-> r.ls]

\* Tasks: clampPoints of a draft's number
Tasks_clampPoints(n) == clampPoints(IF isFinite(n) THEN MathRound(n).n ELSE 1)

\* the points of the draft stored as they are
normalizePointsRaw(d) == IF isFinite(d.points) THEN d.points.n ELSE 1

normalizePoints(d) == IF d.isCore THEN 0 ELSE Tasks_clampPoints(d.points)

\* makeId: an id that no task of this session carries
makeId(v, t) == "t_" \o digit(t) \o "_r" \o digit(v.ids)

persist(v, ls, next) == [views |-> [v EXCEPT !.tasks = next], ls |-> saveTasks(ls, next)]

resetForm(v) == [v EXCEPT !.editingId = ""]

startEdit(v, id) == [v EXCEPT !.editingId = id]

\* tasks.findIndex((t) => t.id === id), from 1, 0 for none
findIndex(tasks, id) ==
  IF \E i \in DOMAIN tasks : tasks[i].id = id
  THEN CHOOSE i \in DOMAIN tasks :
         tasks[i].id = id /\ \A j \in 1..(i - 1) : tasks[j].id # id
  ELSE 0

remove(v, ls, id) ==
  LET keep(t) == t.id # id
      r == persist(v, ls, SelectSeq(v.tasks, keep))
  IN IF v.editingId = id THEN [r EXCEPT !.views = resetForm(r.views)] ELSE r

\* the number of active core tasks among the tasks other than id
coreActiveCountNow(tasks, id) ==
  Cardinality({i \in DOMAIN tasks : tasks[i].id # id /\ tasks[i].isActive /\ tasks[i].isCore})

toggleActive(v, ls, id) ==
  IF findIndex(v.tasks, id) = 0 THEN [views |-> v, ls |-> ls]
  ELSE LET target == v.tasks[findIndex(v.tasks, id)]
           willActivate == ~target.isActive
       IN IF willActivate /\ target.isCore /\ coreActiveCountNow(v.tasks, id) >= MaxCoreActive
          THEN [views |-> v, ls |-> ls]
          ELSE persist(v, ls, [i \in DOMAIN v.tasks |->
                                 IF v.tasks[i].id = id
                                 THEN [v.tasks[i] EXCEPT !.isActive = ~v.tasks[i].isActive]
                                 ELSE v.tasks[i]])

\* a guard that lets every core task through
canEnableCoreActiveAlways(tasks, excludeId) == TRUE

canEnableCoreActive(tasks, excludeId) == coreActiveCountNow(tasks, excludeId) < MaxCoreActive

moveTask(v, ls, id, dir) ==
  IF findIndex(v.tasks, id) = 0 THEN [views |-> v, ls |-> ls]
  ELSE LET tasks == v.tasks
           current == tasks[findIndex(tasks, id)]
           sameGroup(t) == t.isCore = current.isCore
           group == SelectSeq(tasks, sameGroup)
           pos == findIndex(group, id)
           nextPos == pos + dir
       IN IF nextPos < 1 \/ nextPos > Len(group) THEN [views |-> v, ls |-> ls]
          ELSE LET idxA == findIndex(tasks, id)
                   idxB == findIndex(tasks, group[nextPos].id)
               IN persist(v, ls, [i \in DOMAIN tasks |->
                                    IF i = idxA THEN tasks[idxB]
                                    ELSE IF i = idxB THEN tasks[idxA]
                                    ELSE tasks[i]])

submit(v, ls, draft, t) ==
  LET title == trim(draft.title)
  IN IF title = "" THEN [views |-> v, ls |-> ls]
     ELSE IF draft.isCore /\ draft.isActive /\ ~canEnableCoreActive(v.tasks, v.editingId)
     THEN [views |-> v, ls |-> ls]
     ELSE LET points == jsNumber(normalizePoints(draft))
          IN IF v.editingId # ""
             THEN LET r == persist(v, ls, [i \in DOMAIN v.tasks |->
                                             IF v.tasks[i].id = v.editingId
                                             THEN spread(v.tasks[i],
                                                         [title |-> title, points |-> points,
                                                          isCore |-> draft.isCore,
                                                          isActive |-> draft.isActive])
                                             ELSE v.tasks[i]])
                  IN [r EXCEPT !.views = resetForm(r.views)]
             ELSE LET newTask == [id |-> makeId(v, t), title |-> title, points |-> points,
                                  isCore |-> draft.isCore, isActive |-> draft.isActive]
                      r == persist([v EXCEPT !.ids = v.ids + 1], ls, <<newTask>> \o v.tasks)
                  IN [r EXCEPT !.views = resetForm(r.views)]

----------------------------------------------------------------------------
(* Inputs *)

Dates == {"2024-01-15", "2024-01-20", "2024-02-01"}
Months == {toMonthISO(d) : d \in Dates}

LogTaskIds == {"t1"}
ChecksInputs == UNION {[S -> BOOLEAN] : S \in SUBSET LogTaskIds}
Notes == {"", " ", "x"}

\* what the Today view hands to persistDayLog
Drafts == [checks : ChecksInputs, note : Notes, excludeFromStats : BOOLEAN]

\* what a caller of upsertDayLog may pass for a date: a draft with the date,
\* or a bare log that carries only the mandatory fields and its own createdAt
UpsertInputs(d) ==
  {spread([date |-> d], x) : x \in Drafts}
    \cup {[date |-> d, checks |-> c, createdAt |-> 0] : c \in ChecksInputs}

\* the drafts of the store session: one with input, one without
SessionDrafts ==
  {[checks |-> [k \in LogTaskIds |-> TRUE], note |-> "x", excludeFromStats |-> FALSE],
   [checks |-> [k \in LogTaskIds |-> FALSE], note |-> " ", excludeFromStats |-> FALSE]}

\* records written before this session
storedLog(d) ==
  [date |-> d, checks |-> [k \in LogTaskIds |-> TRUE], note |-> "kept",
   excludeFromStats |-> FALSE, createdAt |-> 0, updatedAt |-> 0]

\* records of the legacy blob: the v1 store kept whatever it was given, with
\* or without the timestamps that were added later
legacyLog(d) ==
  CASE d = "2024-01-15" -> [date |-> d, checks |-> [k \in LogTaskIds |-> TRUE], note |-> "old"]
    [] d = "2024-01-20" -> [date |-> d, checks |-> [k \in LogTaskIds |-> FALSE], note |-> "",
                            excludeFromStats |-> FALSE, createdAt |-> 0, updatedAt |-> 0]
    [] OTHER -> [date |-> d, checks |-> EmptyMap, note |-> "old", excludeFromStats |-> TRUE,
                 createdAt |-> 0, updatedAt |-> 0]

storedMap(S) == [d \in S |-> storedLog(d)]
legacyMap(S) == [d \in S |-> legacyLog(d)]

LegacyObjects == {jsObject(legacyMap(S)) : S \in {{"2024-01-15", "2024-02-01"}, Dates}}

LegacyTexts ==
  {EmptyString, InvalidText, JsonText("pretty", null), JsonText("pretty", jsNumber(42)),
   JsonText("pretty", jsString("x")), JsonText("pretty", jsArray(<<legacyLog("2024-01-15")>>))}
    \cup {JsonText("pretty", v) : v \in LegacyObjects}

OldBackup == JsonText("pretty", jsObject(legacyMap({"2024-02-01"})))

ShardDateSets == {{}, {"2024-01-15"}, {"2024-01-20", "2024-02-01"}}

TaskInputs ==
  {<<[id |-> "t1", title |-> "a", points |-> jsNumber(0), isCore |-> TRUE, isActive |-> TRUE]>>,
   <<[id |-> "t1", title |-> "a", points |-> jsNumber(37), isCore |-> FALSE, isActive |-> TRUE]>>}

\* a storage with the given legacy text, backup text and shard dates; an
\* absent key is passed as null
storageOf(legacy, backup, shardDates) ==
  LET b == bucketOf(storedMap(shardDates))
      keys == (IF legacy = null THEN {} ELSE {KEYS_dayLogsV1})
                \cup (IF backup = null THEN {} ELSE {KEYS_dayLogsV1Backup})
                \cup {v2Key(m) : m \in DOMAIN b}
  IN [k \in keys |->
        IF k = KEYS_dayLogsV1 THEN legacy
        ELSE IF k = KEYS_dayLogsV1Backup THEN backup
        ELSE JSONstringify(jsObject(b[sliceFrom(k, Len(V2_PREFIX))]))]

InitStorages ==
  {storageOf(l, null, s) : l \in LegacyTexts \cup {null}, s \in ShardDateSets}
    \cup {storageOf(JsonText("pretty", v), OldBackup, s) : v \in LegacyObjects, s \in ShardDateSets}
    \cup {storageOf(null, OldBackup, {})}
    \cup {setItem(storageOf(JsonText("pretty", v), null, {}), v2Key("2024-01"), InvalidText) :
            v \in LegacyObjects}

TodayStorages ==
  {storageOf(null, null, {}),
   storageOf(null, null, Dates),
   storageOf(JsonText("pretty", jsObject(legacyMap(Dates))), null, {"2024-01-15"})}

----------------------------------------------------------------------------
(* The store session: every operation of the storage module, on every date *)

store == [ls |-> localStorage, migratedOnce |-> migratedOnce]

\* history of the session: for each date the createdAt of the first stored
\* record of that date that was there to read (-1 while there was none)
firstCreatedAtOf(first, st) ==
  [d \in Dates |->
     LET r == getDayLog(st, d).result
     IN IF first[d] # -1 THEN first[d]
        ELSE IF "createdAt" \in DOMAIN r THEN r.createdAt
        ELSE -1]

\* this call found the latch open
ranMigration(st) == ~st.migratedOnce

Init ==
  /\ localStorage \in InitStorages
  /\ migratedOnce = FALSE
  /\ now = 1
  /\ selectedDay = "2024-01-15"
  /\ views = NoViews
  /\ firstCreatedAt = firstCreatedAtOf([d \in Dates |-> -1], store)
  /\ calls = 0
  /\ last = [op |-> "init"]

returns(st1, rec) ==
  /\ localStorage' = st1.ls
  /\ migratedOnce' = st1.migratedOnce
  /\ last' = spread(rec, [migrated |-> ranMigration(store) /\ st1.migratedOnce])
  /\ firstCreatedAt' = firstCreatedAtOf(firstCreatedAt, st1)

call(st1, rec) ==
  /\ calls < MaxCalls
  /\ calls' = calls + 1
  /\ returns(st1, rec)
  /\ UNCHANGED <<now, selectedDay, views>>

\* the page is reloaded: the module-level latch starts over, storage stays
Reload ==
  /\ migratedOnce
  /\ migratedOnce' = FALSE
  /\ last' = [op |-> "reload"]
  /\ UNCHANGED <<localStorage, now, selectedDay, calls, views, firstCreatedAt>>

ListAvailableMonths ==
  LET r == listAvailableMonths(store)
  IN call(r.st, [op |-> "listAvailableMonths", result |-> r.result])

LoadDayLogMap ==
  LET r == loadDayLogMap(store)
  IN call(r.st, [op |-> "loadDayLogMap", result |-> r.result])

LoadDayLogMapForMonth ==
  \E m \in Months :
    LET r == loadDayLogMapForMonth(store, m)
    IN call(r.st, [op |-> "loadDayLogMapForMonth", month |-> m, result |-> r.result])

GetDayLog ==
  \E d \in Dates :
    LET r == getDayLog(store, d)
    IN call(r.st, [op |-> "getDayLog", date |-> d, result |-> r.result])

UpsertDayLog ==
  \E d \in Dates, x \in SessionDrafts :
    LET log == spread([date |-> d], x)
    IN call(upsertDayLog(store, log, now), [op |-> "upsertDayLog", log |-> log, at |-> now])

DeleteDayLog ==
  \E d \in Dates :
    call(deleteDayLog(store, d), [op |-> "deleteDayLog", date |-> d])

SaveDayLogMap ==
  \E S \in SUBSET Dates :
    LET map == storedMap(S)
    IN call(saveDayLogMap(store, map), [op |-> "saveDayLogMap", map |-> map])

PersistDayLog ==
  \E d \in Dates, log \in SessionDrafts :
    call(persistDayLog(store, d, log, now),
         [op |-> "persistDayLog", date |-> d, log |-> log, at |-> now])

LoadTasks ==
  LET r == loadTasks(localStorage)
  IN call([ls |-> r.ls, migratedOnce |-> migratedOnce],
          IF r.threw THEN [op |-> "loadTasks", threw |-> TRUE]
          ELSE [op |-> "loadTasks", threw |-> FALSE, result |-> r.result])

SaveTasks ==
  \E tasks \in TaskInputs :
    call([ls |-> saveTasks(localStorage, tasks), migratedOnce |-> migratedOnce],
         [op |-> "saveTasks", tasks |-> tasks])

Next ==
  \/ Reload
  \/ ListAvailableMonths
  \/ LoadDayLogMap
  \/ LoadDayLogMapForMonth
  \/ GetDayLog
  \/ UpsertDayLog
  \/ DeleteDayLog
  \/ SaveDayLogMap
  \/ PersistDayLog
  \/ LoadTasks
  \/ SaveTasks

Spec == Init /\ [][Next]_vars

----------------------------------------------------------------------------
(* One day under the clock: every log and every draft, written to the      *)
(* selected day any number of times while the clock advances               *)

InitDay ==
  /\ localStorage \in TodayStorages
  /\ migratedOnce = FALSE
  /\ now = 1
  /\ selectedDay \in Dates
  /\ views = NoViews
  /\ firstCreatedAt = firstCreatedAtOf([d \in Dates |-> -1], store)
  /\ calls = 0
  /\ last = [op |-> "init"]

step(st1, rec) ==
  /\ returns(st1, rec)
  /\ UNCHANGED <<now, selectedDay, calls, views>>

Tick ==
  /\ now < MaxClock
  /\ now' = now + 1
  /\ last' = [op |-> "tick"]
  /\ UNCHANGED <<localStorage, migratedOnce, selectedDay, calls, views, firstCreatedAt>>

UpsertSelectedDay ==
  \E log \in UpsertInputs(selectedDay) :
    step(upsertDayLog(store, log, now), [op |-> "upsertDayLog", log |-> log, at |-> now])

PersistSelectedDay ==
  \E log \in Drafts :
    step(persistDayLog(store, selectedDay, log, now),
         [op |-> "persistDayLog", date |-> selectedDay, log |-> log, at |-> now])

DeleteSelectedDay ==
  step(deleteDayLog(store, selectedDay), [op |-> "deleteDayLog", date |-> selectedDay])

GetSelectedDay ==
  LET r == getDayLog(store, selectedDay)
  IN step(r.st, [op |-> "getDayLog", date |-> selectedDay, result |-> r.result])

NextDay ==
  \/ Tick
  \/ UpsertSelectedDay
  \/ PersistSelectedDay
  \/ DeleteSelectedDay
  \/ GetSelectedDay

SpecDay == InitDay /\ [][NextDay]_vars

----------------------------------------------------------------------------
(* The Today view alone on its selected day: every edit of a check, of the  *)
(* note or of the exclusion flag ends in persistDayLog with the draft       *)

NextToday ==
  \/ Tick
  \/ PersistSelectedDay
  \/ GetSelectedDay

SpecToday == InitDay /\ [][NextToday]_vars

----------------------------------------------------------------------------
(* The task registry: loadTasks and saveTasks over every stored content    *)

MaxStored == 7
MaxOdd == 2

storedId(i) == "s" \o SubSeq("123456789", i, i)

\* well-formed tasks, enough of them to pass the cap on active core tasks
CapShapes ==
  {[isCore |-> TRUE, isActive |-> TRUE, points |-> jsNumber(0)],
   [isCore |-> TRUE, isActive |-> FALSE, points |-> jsNumber(0)],
   [isCore |-> FALSE, isActive |-> TRUE, points |-> jsNumber(5)]}

\* tasks with points of every kind a JSON text can hold, and array elements
\* that are not objects
OddShapes ==
  {[isCore |-> TRUE, isActive |-> TRUE, points |-> jsNumber(3)],
   [isCore |-> TRUE, isActive |-> FALSE],
   [isCore |-> FALSE, isActive |-> TRUE, points |-> jsNumber(37)],
   [isCore |-> FALSE, isActive |-> TRUE, points |-> jsNumber(-4)],
   [isCore |-> FALSE, isActive |-> FALSE, points |-> jsNumber(0)],
   [isCore |-> FALSE, isActive |-> TRUE, points |-> jsFraction(2, 5)],
   [isCore |-> FALSE, isActive |-> TRUE, points |-> jsString("7")],
   [isCore |-> FALSE, isActive |-> TRUE, points |-> jsString("x")],
   [isCore |-> FALSE, isActive |-> TRUE, points |-> null],
   [isCore |-> FALSE, isActive |-> TRUE],
   null,
   jsNumber(5)}

storedTask(shape, i) ==
  IF isPrimitive(shape) THEN shape
  ELSE spread([id |-> storedId(i), title |-> "task"], shape)

storedTasks(shapes) == [i \in DOMAIN shapes |-> storedTask(shapes[i], i)]

StoredLists ==
  UNION {[1..n -> CapShapes] : n \in 0..MaxStored}
    \cup UNION {[1..n -> OddShapes] : n \in 1..MaxOdd}

\* what the tasks key may hold: nothing, no JSON, JSON that is no array, or
\* an array
TaskStorages ==
  {EmptyMap}
    \cup {setItem(EmptyMap, KEYS_tasks, text) :
            text \in {EmptyString, InvalidText, JsonText("pretty", null),
                      JsonText("pretty", jsNumber(42)), JsonText("pretty", jsObject(EmptyMap))}}
    \cup {setItem(EmptyMap, KEYS_tasks, JSONstringify(jsArray(storedTasks(shapes)))) :
            shapes \in StoredLists}

InitTasks ==
  /\ localStorage \in TaskStorages
  /\ migratedOnce = FALSE
  /\ now = 1
  /\ selectedDay = "2024-01-15"
  /\ views = NoViews
  /\ firstCreatedAt = firstCreatedAtOf([d \in Dates |-> -1], store)
  /\ calls = 0
  /\ last = [op |-> "init"]

NextTasks ==
  \/ LoadTasks
  \/ SaveTasks

SpecTasks == InitTasks /\ [][NextTasks]_vars

----------------------------------------------------------------------------
(* The application: Today and Tasks are mounted together and stay mounted, *)
(* each with its own copy of the registry, over one shared storage          *)

MaxViewSteps == 3

\* registries as the application leaves them: none, one bonus task, and the
\* core tasks at their cap with one more core task switched off
ViewStorages ==
  LET coreOn == [isCore |-> TRUE, isActive |-> TRUE, points |-> jsNumber(0)]
      coreOff == [isCore |-> TRUE, isActive |-> FALSE, points |-> jsNumber(0)]
      bonusOn == [isCore |-> FALSE, isActive |-> TRUE, points |-> jsNumber(5)]
  IN {EmptyMap}
       \cup {setItem(EmptyMap, KEYS_tasks, JSONstringify(jsArray(storedTasks(shapes)))) :
               shapes \in {<<bonusOn>>,
                           <<coreOn, coreOn, coreOn, coreOn, coreOn, coreOff, bonusOn>>}}

\* what the form can hold at submit: a blank or a padded title, points of
\* every kind a number input yields
DraftTasks ==
  {[title |-> " ", points |-> finite(1, 0), isCore |-> FALSE, isActive |-> TRUE],
   [title |-> " x ", points |-> finite(37, 0), isCore |-> TRUE, isActive |-> TRUE],
   [title |-> "x", points |-> finite(37, 0), isCore |-> FALSE, isActive |-> TRUE],
   [title |-> "x", points |-> finite(2, 5), isCore |-> FALSE, isActive |-> FALSE],
   [title |-> "x", points |-> NaN, isCore |-> FALSE, isActive |-> TRUE],
   [title |-> "x", points |-> finite(0, 0), isCore |-> TRUE, isActive |-> FALSE]}

idsOf(tasks) == {tasks[i].id : i \in DOMAIN tasks}

InitViews ==
  /\ localStorage \in ViewStorages
  /\ migratedOnce = FALSE
  /\ now = 1
  /\ selectedDay = "2024-01-15"
  /\ views = NoViews
  /\ firstCreatedAt = firstCreatedAtOf([d \in Dates |-> -1], store)
  /\ calls = 0
  /\ last = [op |-> "init"]

\* App mounts Today first: its effect is the first to run
MountToday ==
  /\ views.phase = "unmounted"
  /\ LET r == todayLoad(views, store, selectedDay, now)
     IN /\ views' = [r.views EXCEPT !.phase = "todayMounted"]
        /\ returns(r.st, [op |-> "Today.load", date |-> selectedDay])
  /\ UNCHANGED <<now, selectedDay, calls>>

MountTasks ==
  /\ views.phase = "todayMounted"
  /\ LET r == tasksLoad(views, localStorage)
     IN /\ views' = [r.views EXCEPT !.phase = "ready"]
        /\ returns([ls |-> r.ls, migratedOnce |-> migratedOnce], [op |-> "Tasks.load"])
  /\ UNCHANGED <<now, selectedDay, calls>>

\* a user action on the mounted application
act(v1, st1, rec) ==
  /\ views.phase = "ready"
  /\ calls < MaxViewSteps
  /\ calls' = calls + 1
  /\ views' = v1
  /\ returns(st1, rec)

\* Today: another day is selected, the load effect runs again
SelectDay ==
  \E day \in Dates \ {selectedDay} :
    LET r == todayLoad(views, store, day, now)
    IN /\ act(r.views, r.st, [op |-> "Today.load", date |-> day])
       /\ selectedDay' = day
       /\ UNCHANGED now

StartEdit ==
  \E id \in idsOf(views.tasks) :
    LET r == [views |-> startEdit(views, id), ls |-> localStorage]
    IN /\ act(r.views, [ls |-> r.ls, migratedOnce |-> migratedOnce],
              [op |-> "Tasks.startEdit", id |-> id])
       /\ UNCHANGED <<now, selectedDay>>

Submit ==
  \E draft \in DraftTasks :
    LET r == submit(views, localStorage, draft, now)
    IN /\ act(r.views, [ls |-> r.ls, migratedOnce |-> migratedOnce],
              [op |-> "Tasks.submit", draft |-> draft, editingId |-> views.editingId])
       /\ UNCHANGED <<now, selectedDay>>

ToggleActive ==
  \E id \in idsOf(views.tasks) :
    LET r == toggleActive(views, localStorage, id)
    IN /\ act(r.views, [ls |-> r.ls, migratedOnce |-> migratedOnce],
              [op |-> "Tasks.toggleActive", id |-> id])
       /\ UNCHANGED <<now, selectedDay>>

Remove ==
  \E id \in idsOf(views.tasks) :
    LET r == remove(views, localStorage, id)
    IN /\ act(r.views, [ls |-> r.ls, migratedOnce |-> migratedOnce],
              [op |-> "Tasks.remove", id |-> id])
       /\ UNCHANGED <<now, selectedDay>>

MoveTask ==
  \E id \in idsOf(views.tasks), dir \in {-1, 1} :
    LET r == moveTask(views, localStorage, id, dir)
    IN /\ act(r.views, [ls |-> r.ls, migratedOnce |-> migratedOnce],
              [op |-> "Tasks.moveTask", id |-> id, dir |-> dir])
       /\ UNCHANGED <<now, selectedDay>>

NextViews ==
  \/ MountToday
  \/ MountTasks
  \/ SelectDay
  \/ StartEdit
  \/ Submit
  \/ ToggleActive
  \/ Remove
  \/ MoveTask

SpecViews == InitViews /\ [][NextViews]_vars

----------------------------------------------------------------------------
(* Scoring engine.  rawScore is kept as the exact fraction num / den with   *)
(* den = coreTotal (1 when there is no core task): for at most 10 core      *)
(* tasks the double that JavaScript computes compares with the integers     *)
(* 100, 101, 120 and 150 exactly as this fraction does.                     *)

MaxTasks == 3

TaskIds == <<"t1", "t2", "t3", "t4", "t5", "t6">>
PointsInputs == {0, 10}

\* task lists with distinct ids, in every combination of flags and points
TaskLists ==
  UNION {[1..n -> [isCore : BOOLEAN, isActive : BOOLEAN, points : PointsInputs]] : n \in 0..MaxTasks}

taskAt(flags, i) ==
  [id |-> TaskIds[i], title |-> "task", points |-> flags[i].points,
   isCore |-> flags[i].isCore, isActive |-> flags[i].isActive]

tasksOf(flags) == [i \in DOMAIN flags |-> taskAt(flags, i)]

ScoreChecks == UNION {[S -> BOOLEAN] : S \in SUBSET {TaskIds[i] : i \in 1..MaxTasks}}

isActiveTask(t) == t.isActive
isCoreTask(t) == t.isActive /\ t.isCore
isBonusTask(t) == t.isActive /\ ~t.isCore

activeTasks(tasks) == SelectSeq(tasks, isActiveTask)
coreTasks(tasks) == SelectSeq(tasks, isCoreTask)
bonusTasks(tasks) == SelectSeq(tasks, isBonusTask)

\* checks[t.id] is truthy
checked(checks, id) == id \in DOMAIN checks /\ checks[id]

RECURSIVE countDone(_, _)
countDone(tasks, checks) ==
  IF tasks = <<>> THEN 0
  ELSE (IF checked(checks, Head(tasks).id) THEN 1 ELSE 0) + countDone(Tail(tasks), checks)

\* the bonus sum cut off at the largest value one task can carry
sumBonusPointsCapped(tasks, checks) ==
  LET S == {i \in DOMAIN tasks : checked(checks, tasks[i].id)}
  IN IF S = {} THEN 0 ELSE 10

RECURSIVE sumBonusPoints(_, _)
sumBonusPoints(tasks, checks) ==
  IF tasks = <<>> THEN 0
  ELSE (IF checked(checks, Head(tasks).id) THEN Head(tasks).points ELSE 0)
         + sumBonusPoints(Tail(tasks), checks)

\* the sum of a sequence of numbers
RECURSIVE total(_)
total(seq) == IF seq = <<>> THEN 0 ELSE Head(seq) + total(Tail(seq))

fraction(num, den) == [num |-> num, den |-> den]

\* score > n
moreThan(score, n) == score.num > n * score.den

\* score >= n
atLeast(score, n) == score.num >= n * score.den

\* score + n for an integer n
plus(score, n) == fraction(score.num + n * score.den, score.den)

\* the core score with the unit 100 / coreTotal cut to an integer
coreScoreTruncated(coreDone, coreTotal) ==
  fraction(IF coreTotal > 0 THEN coreDone * (100 \div coreTotal) ELSE 0, 1)

\* coreDone * coreUnit, coreUnit being 100 / coreTotal, or 0 without core task
coreScore(coreDone, coreTotal) ==
  IF coreTotal > 0 THEN fraction(coreDone * 100, coreTotal) ELSE fraction(0, 1)

calcRank(score) ==
  IF atLeast(score, 150) THEN "SSS"
  ELSE IF atLeast(score, 120) THEN "SS"
  ELSE IF atLeast(score, 101) THEN "S"
  ELSE "A"

\* the test without its coreTotal > 0 half
showRankWithoutCoreGuard(coreTotal, coreIncompleteCount) == coreIncompleteCount = 0

showRankOf(coreTotal, coreIncompleteCount) == coreTotal > 0 /\ coreIncompleteCount = 0

calcScore(tasks, dayLog) ==
  LET actives == activeTasks(tasks)
      cores == coreTasks(actives)
      bonuses == bonusTasks(actives)
      coreTotal == Len(cores)
      coreDone == countDone(cores, dayLog.checks)
      coreIncompleteCount == coreTotal - coreDone
      bonusScore == sumBonusPoints(bonuses, dayLog.checks)
      rawScore == plus(coreScore(coreDone, coreTotal), bonusScore)
      showRank == showRankOf(coreTotal, coreIncompleteCount)
      result == [rawScore |-> rawScore, coreTotal |-> coreTotal, coreDone |-> coreDone,
                 coreIncompleteCount |-> coreIncompleteCount, showRank |-> showRank]
  IN IF showRank THEN spread(result, [rank |-> calcRank(rawScore)]) ELSE result

\* the inputs are drawn here; CalcScore applies the function to them
InitScore ==
  /\ localStorage = EmptyMap
  /\ migratedOnce = FALSE
  /\ now = 1
  /\ selectedDay = "2024-01-15"
  /\ views = NoViews
  /\ firstCreatedAt = firstCreatedAtOf([d \in Dates |-> -1], store)
  /\ calls = 0
  /\ \E flags \in TaskLists, checks \in ScoreChecks :
       last = [op |-> "input", tasks |-> tasksOf(flags),
               dayLog |-> spread(defaultDayLog(selectedDay), [checks |-> checks])]

CalcScore ==
  /\ last.op = "input"
  /\ last' = [op |-> "calcScore", tasks |-> last.tasks, dayLog |-> last.dayLog,
              result |-> calcScore(last.tasks, last.dayLog)]
  /\ UNCHANGED <<localStorage, migratedOnce, now, selectedDay, calls, views, firstCreatedAt>>

NextScore == CalcScore

SpecScore == InitScore /\ [][NextScore]_vars

----------------------------------------------------------------------------
(* calcRank over every score up to MaxScore, whole or in thirds *)

MaxScore == 151

RankScores == {fraction(num, den) : num \in 0..(3 * MaxScore), den \in {1, 3}}

InitRank ==
  /\ localStorage = EmptyMap
  /\ migratedOnce = FALSE
  /\ now = 1
  /\ selectedDay = "2024-01-15"
  /\ views = NoViews
  /\ firstCreatedAt = firstCreatedAtOf([d \in Dates |-> -1], store)
  /\ calls = 0
  /\ \E score \in RankScores : last = [op |-> "score", score |-> score]

CalcRank ==
  /\ last.op = "score"
  /\ last' = [op |-> "calcRank", score |-> last.score, result |-> calcRank(last.score)]
  /\ UNCHANGED <<localStorage, migratedOnce, now, selectedDay, calls, views, firstCreatedAt>>

NextRank == CalcRank

SpecRank == InitRank /\ [][NextRank]_vars

----------------------------------------------------------------------------
(* Properties of the migration *)

\* C1: when a read access is the first access of a session and migrates a
\* legacy object, every legacy date that the shard of its month already held
\* keeps the shard's record, and every other legacy date is in the shard of
\* its month with the legacy record.
C1_MigrationKeepsShardEntries ==
  [][LET old == getItem(localStorage, KEYS_dayLogsV1)
     IN (/\ last'.op \in {"listAvailableMonths", "loadDayLogMap", "loadDayLogMapForMonth", "getDayLog"}
         /\ last'.migrated
         /\ old # null
         /\ old.kind = "json"
         /\ old.value.type = "object")
        => \A d \in DOMAIN old.value.map :
             LET before == loadMonthMap(localStorage, toMonthISO(d))
                 after == loadMonthMap(localStorage', toMonthISO(d))
             IN /\ d \in DOMAIN after
                /\ after[d] = IF d \in DOMAIN before THEN before[d] ELSE old.value.map[d]]_vars

\* a migrating read has left a shard that holds both a record it kept and a
\* record it took from the legacy blob (now readable from the backup)
C1_Witness ==
  /\ last.op \in {"listAvailableMonths", "loadDayLogMap", "loadDayLogMapForMonth", "getDayLog"}
  /\ last.migrated
  /\ KEYS_dayLogsV1Backup \in DOMAIN localStorage
  /\ LET legacy == entriesOf(safeJsonParse(localStorage[KEYS_dayLogsV1Backup]))
         shard == loadMonthMap(localStorage, "2024-01")
     IN /\ {"2024-01-15", "2024-01-20"} \subseteq DOMAIN legacy
        /\ {"2024-01-15", "2024-01-20"} \subseteq DOMAIN shard
        /\ shard["2024-01-15"] = storedLog("2024-01-15")
        /\ shard["2024-01-15"] # legacy["2024-01-15"]
        /\ shard["2024-01-20"] = legacy["2024-01-20"]

\* C2: when listAvailableMonths() is the first access of a session and finds a
\* legacy blob that is a JSON object, it returns the months of the legacy
\* dates together with the months whose shard key existed, each once and in
\* descending order; afterwards the legacy key is gone and, if there was no
\* backup, the backup key holds the legacy text as it was.
C2_MonthsAfterMigration ==
  [][LET old == getItem(localStorage, KEYS_dayLogsV1)
         r == last'.result
     IN (/\ last'.op = "listAvailableMonths"
         /\ last'.migrated
         /\ old # null
         /\ old.kind = "json"
         /\ old.value.type = "object")
        => /\ {r[i] : i \in DOMAIN r}
                = {SubSeq(d, 1, 7) : d \in DOMAIN old.value.map}
                    \cup {m \in Months \cup {"0"} : (V2_PREFIX \o m) \in DOMAIN localStorage}
           /\ \A i, j \in DOMAIN r : i < j => StrLess(r[j], r[i])
           /\ KEYS_dayLogsV1 \notin DOMAIN localStorage'
           /\ KEYS_dayLogsV1Backup \notin DOMAIN localStorage
                => /\ KEYS_dayLogsV1Backup \in DOMAIN localStorage'
                   /\ localStorage'[KEYS_dayLogsV1Backup] = old]_vars

\* the scenario of the specification: two legacy dates in two months, no
\* shard and no backup before, and the call has answered 2024-02, 2024-01
C2_Witness ==
  /\ last.op = "listAvailableMonths"
  /\ last.migrated
  /\ last.result = <<"2024-02", "2024-01">>
  /\ KEYS_dayLogsV1 \notin DOMAIN localStorage
  /\ KEYS_dayLogsV1Backup \in DOMAIN localStorage
  /\ localStorage[KEYS_dayLogsV1Backup]
       = JsonText("pretty", jsObject(legacyMap({"2024-01-15", "2024-02-01"})))
  /\ DOMAIN loadMonthMap(localStorage, "2024-01") = {"2024-01-15"}
  /\ DOMAIN loadMonthMap(localStorage, "2024-02") = {"2024-02-01"}

\* C3: the migration step is idempotent.  In every reachable state, running
\* it twice gives the storage that running it once gives, whether the latch
\* stays closed in between or a reload reopens it; and a read access that is
\* not the first of its session, or that is the first after a reload, leaves
\* storage as it was.
C3_MigrationIdempotent ==
  /\ [](LET fresh == [ls |-> localStorage, migratedOnce |-> FALSE]
            once == migrateV1ToV2IfNeeded(fresh)
            reloaded == [ls |-> once.ls, migratedOnce |-> FALSE]
        IN /\ once.migratedOnce
           /\ migrateV1ToV2IfNeeded(once) = once
           /\ migrateV1ToV2IfNeeded(reloaded).ls = once.ls)
  /\ [][(/\ last'.op \in {"listAvailableMonths", "loadDayLogMap", "loadDayLogMapForMonth", "getDayLog"}
         /\ (migratedOnce \/ last.op = "reload"))
        => localStorage' = localStorage]_vars

\* a session migrated a legacy object and deleted a day on its first access,
\* the page was reloaded, and the first read of the new session has run the
\* migration step again
C3_Witness ==
  /\ last.op \in {"listAvailableMonths", "loadDayLogMap", "loadDayLogMapForMonth", "getDayLog"}
  /\ last.migrated
  /\ calls = 2
  /\ KEYS_dayLogsV1Backup \in DOMAIN localStorage
  /\ KEYS_dayLogsV1 \notin DOMAIN localStorage
  /\ \E d \in DOMAIN entriesOf(safeJsonParse(localStorage[KEYS_dayLogsV1Backup])) :
       /\ v2Key(toMonthISO(d)) \in DOMAIN localStorage
       /\ d \notin DOMAIN loadMonthMap(localStorage, toMonthISO(d))

C5_BackupWriteOnce ==
  [][/\ KEYS_dayLogsV1Backup \in DOMAIN localStorage
          => /\ KEYS_dayLogsV1Backup \in DOMAIN localStorage'
             /\ localStorage'[KEYS_dayLogsV1Backup] = localStorage[KEYS_dayLogsV1Backup]
     /\ (KEYS_dayLogsV1Backup \notin DOMAIN localStorage /\ KEYS_dayLogsV1Backup \in DOMAIN localStorage')
          => /\ KEYS_dayLogsV1 \in DOMAIN localStorage
             /\ localStorage'[KEYS_dayLogsV1Backup] = localStorage[KEYS_dayLogsV1]]_vars

\* a legacy blob other than the one backed up earlier has been migrated and
\* the earlier backup is still there
C5_Witness ==
  /\ last.op # "init"
  /\ last.migrated
  /\ KEYS_dayLogsV1 \notin DOMAIN localStorage
  /\ KEYS_dayLogsV1Backup \in DOMAIN localStorage
  /\ localStorage[KEYS_dayLogsV1Backup] = OldBackup
  /\ "2024-01-15" \in DOMAIN loadMonthMap(localStorage, "2024-01")
  /\ loadMonthMap(localStorage, "2024-01")["2024-01-15"] = legacyLog("2024-01-15")

----------------------------------------------------------------------------
(* Properties of the day-log record *)

\* C6: after upsertDayLog(log), getDayLog(log.date) returns a record whose
\* checks, note and excludeFromStats are those of log (a field that log does
\* not carry is not in the record either).
C6_UpsertThenGet ==
  last.op = "upsertDayLog"
    => LET r == getDayLog(store, last.log.date).result
       IN \A f \in {"checks", "note", "excludeFromStats"} :
            /\ (f \in DOMAIN r) = (f \in DOMAIN last.log)
            /\ f \in DOMAIN r => r[f] = last.log[f]

\* a log without input, written at clock 2 over a record of an earlier
\* session, is read back as it was written
C6_Witness ==
  /\ last.op = "upsertDayLog"
  /\ last.at = 2
  /\ "note" \in DOMAIN last.log
  /\ last.log.note = " "
  /\ last.log.checks = [k \in LogTaskIds |-> FALSE]
  /\ ~last.log.excludeFromStats
  /\ LET r == getDayLog(store, last.log.date).result
     IN /\ r.note = " "
        /\ r.createdAt = 0
        /\ r.updatedAt = 2

\* C7: every upsertDayLog leaves a record for its date whose updatedAt is the
\* clock value of the call and is not below the updatedAt it replaces, and
\* whose createdAt is the createdAt of the record it replaces whenever that
\* record had one.
C7_CreatedAtKept ==
  [][last'.op = "upsertDayLog"
       => LET d == last'.log.date
              before == loadMonthMap(migrateV1ToV2IfNeeded(store).ls, toMonthISO(d))
              after == loadMonthMap(localStorage', toMonthISO(d))
          IN /\ d \in DOMAIN after
             /\ after[d].updatedAt = now
             /\ "createdAt" \in DOMAIN after[d]
             /\ (d \in DOMAIN before /\ "updatedAt" \in DOMAIN before[d])
                  => before[d].updatedAt <= after[d].updatedAt
             /\ (d \in DOMAIN before /\ "createdAt" \in DOMAIN before[d])
                  => after[d].createdAt = before[d].createdAt]_vars

\* the selected day was first written at clock 1 of this session and has
\* been written again at clock 3
C7_Witness ==
  /\ last.op = "upsertDayLog"
  /\ now = 3
  /\ LET r == getDayLog(store, selectedDay).result
     IN /\ "createdAt" \in DOMAIN r
        /\ r.createdAt = 1
        /\ r.updatedAt = 3

\* C9: after persistDayLog(date, log) with a log that has no check set to
\* true, a note of blanks only and excludeFromStats false, getDayLog(date)
\* returns the synthesized default record.
C9_EmptyReadsAsDefault ==
  (/\ last.op = "persistDayLog"
   /\ \A k \in DOMAIN last.log.checks : ~last.log.checks[k]
   /\ \A i \in 1..Len(last.log.note) : SubSeq(last.log.note, i, i) = " "
   /\ ~last.log.excludeFromStats)
    => getDayLog(store, last.date).result = defaultDayLog(last.date)

\* a draft with a blank note and an unchecked task was written over the only
\* record of its month: the shard is still there and no longer holds the day
C9_Witness ==
  /\ last.op = "persistDayLog"
  /\ last.date = "2024-02-01"
  /\ last.log = [checks |-> [k \in LogTaskIds |-> FALSE], note |-> " ", excludeFromStats |-> FALSE]
  /\ v2Key("2024-02") \in DOMAIN localStorage
  /\ loadMonthMap(localStorage, "2024-02") = EmptyMap
  /\ getDayLog(store, last.date).result = defaultDayLog(last.date)

\* C8: no month shard holds an empty day log, that is a record with no check
\* set to true, a note that is absent, empty or blanks only, and
\* excludeFromStats absent or false.
C8_NoEmptyDayLogStored ==
  \A key \in DOMAIN localStorage :
    (Len(key) > Len(V2_PREFIX) /\ SubSeq(key, 1, Len(V2_PREFIX)) = V2_PREFIX)
      => LET shard == entriesOf(safeJsonParse(localStorage[key]))
         IN \A d \in DOMAIN shard :
              \/ \E k \in DOMAIN shard[d].checks : shard[d].checks[k]
              \/ /\ "note" \in DOMAIN shard[d]
                 /\ \E i \in 1..Len(shard[d].note) : SubSeq(shard[d].note, i, i) # " "
              \/ /\ "excludeFromStats" \in DOMAIN shard[d]
                 /\ shard[d].excludeFromStats

\* C19: getDayLog(date) returns the record that the shard of the date's
\* month holds for the date, and when the shard holds none the record with
\* the date, no checks, the empty note and excludeFromStats false, without
\* createdAt and updatedAt; it leaves storage as the migration step leaves
\* it, which is unchanged once the session has migrated.
C19_GetDayLog ==
  [][last'.op = "getDayLog"
       => LET d == last'.date
              text == getItem(localStorage', V2_PREFIX \o SubSeq(d, 1, 7))
              shard == IF text # null /\ text.kind = "json" /\ text.value.type = "object"
                       THEN text.value.map
                       ELSE EmptyMap
          IN /\ d \in DOMAIN shard => last'.result = shard[d]
             /\ d \notin DOMAIN shard
                  => last'.result = [date |-> d, checks |-> EmptyMap, note |-> "",
                                     excludeFromStats |-> FALSE]
             /\ localStorage' = migrateV1ToV2IfNeeded(store).ls
             /\ migratedOnce => localStorage' = localStorage]_vars

\* the second access of a session has asked for a day that the shard of its
\* month, which holds another day, does not hold, and has got the default
C19_Witness ==
  /\ last.op = "getDayLog"
  /\ ~last.migrated
  /\ last.date = "2024-01-20"
  /\ DOMAIN loadMonthMap(localStorage, "2024-01") = {"2024-01-15"}
  /\ DOMAIN last.result = {"date", "checks", "note", "excludeFromStats"}
  /\ last.result.date = "2024-01-20"

\* C20 as stated: after deleteDayLog(date) the shard of the date's month has
\* no entry for the date and getDayLog(date) returns the default; and when
\* the shard had no entry for the date before the call, the call leaves
\* every key and value of storage as it was.
C20_DeleteNoOpAlways ==
  [][last'.op = "deleteDayLog"
       => LET d == last'.date
              before == loadMonthMap(localStorage, toMonthISO(d))
              after == [ls |-> localStorage', migratedOnce |-> migratedOnce']
          IN /\ d \notin DOMAIN loadMonthMap(localStorage', toMonthISO(d))
             /\ getDayLog(after, d).result = defaultDayLog(d)
             /\ d \notin DOMAIN before => localStorage' = localStorage]_vars

\* C20: after deleteDayLog(date) the shard of the date's month has no entry
\* for the date and getDayLog(date) returns the default.  With the storage
\* that the migration step of the call leaves as reference: when the shard
\* holds the date, it is rewritten without it, its other entries and every
\* other key staying as they are; when it does not, storage is left as it
\* is, so a delete of an absent date after the first access changes nothing.
C20_DeleteDayLog ==
  [][last'.op = "deleteDayLog"
       => LET d == last'.date
              key == V2_PREFIX \o SubSeq(d, 1, 7)
              ref == migrateV1ToV2IfNeeded(store).ls
              before == loadMonthMap(ref, toMonthISO(d))
              shard == loadMonthMap(localStorage', toMonthISO(d))
              after == [ls |-> localStorage', migratedOnce |-> migratedOnce']
          IN /\ d \notin DOMAIN shard
             /\ getDayLog(after, d).result = defaultDayLog(d)
             /\ d \in DOMAIN before
                  => /\ shard = [x \in DOMAIN before \ {d} |-> before[x]]
                     /\ DOMAIN localStorage' = DOMAIN ref
                     /\ \A k \in DOMAIN ref \ {key} : localStorage'[k] = ref[k]
             /\ d \notin DOMAIN before => localStorage' = ref
             /\ (migratedOnce /\ d \notin DOMAIN loadMonthMap(localStorage, toMonthISO(d)))
                  => localStorage' = localStorage]_vars

\* a delete of a day that no shard holds, as the second access of a session
\* on a storage without any shard: no key has appeared
C20_Witness ==
  /\ last.op = "deleteDayLog"
  /\ ~last.migrated
  /\ calls = 2
  /\ \A k \in DOMAIN localStorage : ~startsWith(k, V2_PREFIX)
  /\ getDayLog(store, last.date).result = defaultDayLog(last.date)

\* C21: listAvailableMonths() returns the months M for which storage holds
\* a key daylogs_v2_M when the call returns, each once and each before every
\* month that is smaller as a string.
C21_MonthsListed ==
  [][last'.op = "listAvailableMonths"
       => LET r == last'.result
              keys == {k \in DOMAIN localStorage' :
                         Len(k) >= 11 /\ SubSeq(k, 1, 11) = "daylogs_v2_"}
          IN /\ {r[i] : i \in DOMAIN r} = {SubSeq(k, 12, Len(k)) : k \in keys}
             /\ Len(r) = Cardinality(keys)
             /\ \A i, j \in DOMAIN r : i < j => StrLess(r[j], r[i])]_vars

\* the second access of a session lists two months while storage also holds
\* the backup of a migrated legacy blob
C21_Witness ==
  /\ last.op = "listAvailableMonths"
  /\ ~last.migrated
  /\ last.result = <<"2024-02", "2024-01">>
  /\ KEYS_dayLogsV1Backup \in DOMAIN localStorage
  /\ DOMAIN localStorage = {KEYS_dayLogsV1Backup, "daylogs_v2_2024-01", "daylogs_v2_2024-02"}

\* C22 as stated: after saveDayLogMap(map) the shard of every month that has
\* a date in map holds the entries of map of that month and no other, and
\* the shard key of every other month holds what it held before the call.
C22_SaveLeavesOtherMonths ==
  [][last'.op = "saveDayLogMap"
       => LET map == last'.map
              shardMonths(ls) == {SubSeq(k, 12, Len(k)) :
                                    k \in {x \in DOMAIN ls : Len(x) >= 11 /\ SubSeq(x, 1, 11) = "daylogs_v2_"}}
              months == shardMonths(localStorage) \cup shardMonths(localStorage')
                          \cup {SubSeq(d, 1, 7) : d \in DOMAIN map}
          IN \A m \in months :
               IF \E d \in DOMAIN map : SubSeq(d, 1, 7) = m
               THEN loadMonthMap(localStorage', m)
                      = [d \in {x \in DOMAIN map : SubSeq(x, 1, 7) = m} |-> map[d]]
               ELSE getItem(localStorage', "daylogs_v2_" \o m)
                      = getItem(localStorage, "daylogs_v2_" \o m)]_vars

\* C22: after saveDayLogMap(map) the shard of every month that has a date in
\* map holds the entries of map of that month and no other, and the shard
\* key of every other month holds what the migration step of the call leaves
\* in it, which is what it held before once the session has migrated.
C22_SaveDayLogMap ==
  [][last'.op = "saveDayLogMap"
       => LET map == last'.map
              ref == migrateV1ToV2IfNeeded(store).ls
              shardMonths(ls) == {SubSeq(k, 12, Len(k)) :
                                    k \in {x \in DOMAIN ls : Len(x) >= 11 /\ SubSeq(x, 1, 11) = "daylogs_v2_"}}
              months == shardMonths(localStorage) \cup shardMonths(localStorage')
                          \cup {SubSeq(d, 1, 7) : d \in DOMAIN map}
          IN \A m \in months :
               IF \E d \in DOMAIN map : SubSeq(d, 1, 7) = m
               THEN loadMonthMap(localStorage', m)
                      = [d \in {x \in DOMAIN map : SubSeq(x, 1, 7) = m} |-> map[d]]
               ELSE /\ getItem(localStorage', "daylogs_v2_" \o m) = getItem(ref, "daylogs_v2_" \o m)
                    /\ migratedOnce
                         => getItem(localStorage', "daylogs_v2_" \o m)
                              = getItem(localStorage, "daylogs_v2_" \o m)]_vars

\* the first call of a session, on a storage whose shards held 2024-01-20 and
\* 2024-02-01, has saved a map with 2024-01-15 alone: the January shard holds
\* that one day, the February shard is as it was
C22_Witness ==
  /\ last.op = "saveDayLogMap"
  /\ calls = 1
  /\ DOMAIN last.map = {"2024-01-15"}
  /\ KEYS_dayLogsV1Backup \notin DOMAIN localStorage
  /\ loadMonthMap(localStorage, "2024-01") = storedMap({"2024-01-15"})
  /\ loadMonthMap(localStorage, "2024-02") = storedMap({"2024-02-01"})

\* C25: once the stored record of the selected day carries a createdAt, every
\* record stored for that day after any further edits in the Today view
\* carries the same createdAt.
C25_CreatedAtImmutable ==
  LET r == getDayLog(store, selectedDay).result
  IN (firstCreatedAt[selectedDay] # -1 /\ "createdAt" \in DOMAIN r)
       => r.createdAt = firstCreatedAt[selectedDay]

\* C26: in a session that has migrated, upsertDayLog(log) and
\* deleteDayLog(date) add no key other than the shard of the date's month,
\* remove none, change the value of no other key, and within that shard
\* leave every other date with its record and add no other date.
C26_OneShardOneEntry ==
  [][(migratedOnce /\ last'.op \in {"upsertDayLog", "deleteDayLog"})
       => LET d == IF last'.op = "upsertDayLog" THEN last'.log.date ELSE last'.date
              key == "daylogs_v2_" \o SubSeq(d, 1, 7)
              before == loadMonthMap(localStorage, SubSeq(d, 1, 7))
              after == loadMonthMap(localStorage', SubSeq(d, 1, 7))
          IN /\ DOMAIN localStorage \subseteq DOMAIN localStorage'
             /\ DOMAIN localStorage' \subseteq DOMAIN localStorage \cup {key}
             /\ \A k \in DOMAIN localStorage \ {key} : localStorage'[k] = localStorage[k]
             /\ DOMAIN after \ {d} = DOMAIN before \ {d}
             /\ \A x \in DOMAIN before \ {d} : after[x] = before[x]]_vars

\* the second access of a session has written 2024-01-20 into the January
\* shard next to the record of 2024-01-15; the February shard and the backup
\* of the migrated blob are in place
C26_Witness ==
  /\ last.op = "upsertDayLog"
  /\ ~last.migrated
  /\ last.log.date = "2024-01-20"
  /\ KEYS_dayLogsV1Backup \in DOMAIN localStorage
  /\ DOMAIN loadMonthMap(localStorage, "2024-01") = {"2024-01-15", "2024-01-20"}
  /\ loadMonthMap(localStorage, "2024-01")["2024-01-15"] = storedLog("2024-01-15")
  /\ DOMAIN loadMonthMap(localStorage, "2024-02") = {"2024-02-01"}

\* C27: call a storage consistent when every entry of every shard
\* daylogs_v2_M, and every entry of a legacy blob still to be migrated, is
\* keyed by a date whose record carries that date, the shard entries with M
\* as the first 7 characters of the date.  Every step of every store
\* operation takes a consistent storage to a consistent one, and in a
\* consistent storage loadDayLogMap() holds for every date the record that
\* getDayLog returns for it.
C27_ShardConsistency ==
  /\ [](LET shardKeys == {k \in DOMAIN localStorage : Len(k) >= 11 /\ SubSeq(k, 1, 11) = "daylogs_v2_"}
            month(d) == IF Len(d) >= 7 THEN SubSeq(d, 1, 7) ELSE d
            entries(text) == IF text.kind = "json" /\ text.value.type \in {"object", "array"}
                             THEN entriesOf(text.value)
                             ELSE EmptyMap
            keyed(map) == \A d \in DOMAIN map : "date" \in DOMAIN map[d] /\ map[d].date = d
            consistent ==
              /\ \A k \in shardKeys :
                   /\ keyed(entries(localStorage[k]))
                   /\ \A d \in DOMAIN entries(localStorage[k]) : month(d) = SubSeq(k, 12, Len(k))
              /\ "daylogs_v1" \in DOMAIN localStorage => keyed(entries(localStorage["daylogs_v1"]))
        IN consistent
             => \A d \in DOMAIN loadDayLogMap(store).result :
                  loadDayLogMap(store).result[d] = getDayLog(store, d).result)
  /\ [][LET month(d) == IF Len(d) >= 7 THEN SubSeq(d, 1, 7) ELSE d
            shardKeys(ls) == {k \in DOMAIN ls : Len(k) >= 11 /\ SubSeq(k, 1, 11) = "daylogs_v2_"}
            entries(text) == IF text.kind = "json" /\ text.value.type \in {"object", "array"}
                             THEN entriesOf(text.value)
                             ELSE EmptyMap
            keyed(map) == \A d \in DOMAIN map : "date" \in DOMAIN map[d] /\ map[d].date = d
            consistent(ls) ==
              /\ \A k \in shardKeys(ls) :
                   /\ keyed(entries(ls[k]))
                   /\ \A d \in DOMAIN entries(ls[k]) : month(d) = SubSeq(k, 12, Len(k))
              /\ "daylogs_v1" \in DOMAIN ls => keyed(entries(ls["daylogs_v1"]))
        IN consistent(localStorage) => consistent(localStorage')]_vars

\* a write as first access has migrated a legacy object into two shards and
\* added its own record
C27_Witness ==
  /\ last.op = "upsertDayLog"
  /\ last.migrated
  /\ KEYS_dayLogsV1Backup \in DOMAIN localStorage
  /\ DOMAIN loadMonthMap(localStorage, "2024-01") = {"2024-01-15", "2024-01-20"}
  /\ DOMAIN loadMonthMap(localStorage, "2024-02") = {"2024-02-01"}
  /\ DOMAIN loadDayLogMap(store).result = Dates
  /\ \A d \in Dates : loadDayLogMap(store).result[d].date = d

\* C28: after an upsertDayLog or deleteDayLog, every month that
\* listAvailableMonths() returns holds a day log.
C28_NoEmptyMonthListed ==
  last.op \in {"upsertDayLog", "deleteDayLog"}
    => LET months == listAvailableMonths(store).result
       IN \A i \in DOMAIN months : loadDayLogMapForMonth(store, months[i]).result # EmptyMap

\* C29: after saveDayLogMap(m), loadDayLogMap() returns m, and getDayLog
\* returns the default for every date that m does not hold.
C29_SaveLoadRoundTrip ==
  [][last'.op = "saveDayLogMap"
       => LET after == [ls |-> localStorage', migratedOnce |-> migratedOnce']
          IN /\ loadDayLogMap(after).result = last'.map
             /\ \A d \in Dates \ DOMAIN last'.map :
                  getDayLog(after, d).result = defaultDayLog(d)]_vars

----------------------------------------------------------------------------
(* Properties of the scoring engine *)

\* C10: calcScore sets showRank exactly when there is an active core task and
\* every active core task is checked; coreTotal and coreIncompleteCount count
\* the active core tasks and the unchecked ones among them; and the result
\* carries a rank exactly when showRank is true.
C10_ShowRank ==
  last.op = "calcScore"
    => LET tasks == last.tasks
           checks == last.dayLog.checks
           r == last.result
           cores == {i \in DOMAIN tasks : tasks[i].isActive /\ tasks[i].isCore}
           missed == {i \in cores : ~(tasks[i].id \in DOMAIN checks /\ checks[tasks[i].id])}
       IN /\ r.coreTotal = Cardinality(cores)
          /\ r.coreIncompleteCount = Cardinality(missed)
          /\ r.showRank = (cores # {} /\ missed = {})
          /\ cores = {} => ~r.showRank
          /\ ("rank" \in DOMAIN r) = r.showRank

\* no active core task, an inactive core task and a bonus task both checked:
\* the score is positive and no rank is shown
C10_Witness ==
  /\ last.op = "calcScore"
  /\ last.result.coreTotal = 0
  /\ last.result.rawScore.num > 0
  /\ ~last.result.showRank
  /\ "rank" \notin DOMAIN last.result
  /\ \E i \in DOMAIN last.tasks :
       /\ last.tasks[i].isCore
       /\ ~last.tasks[i].isActive
       /\ last.tasks[i].id \in DOMAIN last.dayLog.checks
       /\ last.dayLog.checks[last.tasks[i].id]

\* C11: when there is an active core task, every active core task is checked
\* and no active bonus task is checked, rawScore is 100 and the rank is A.
C11_AllCoreNoBonus ==
  last.op = "calcScore"
    => LET tasks == last.tasks
           checks == last.dayLog.checks
           r == last.result
           on(i) == tasks[i].id \in DOMAIN checks /\ checks[tasks[i].id]
           cores == {i \in DOMAIN tasks : tasks[i].isActive /\ tasks[i].isCore}
           bonuses == {i \in DOMAIN tasks : tasks[i].isActive /\ ~tasks[i].isCore}
       IN (cores # {} /\ (\A i \in cores : on(i)) /\ (\A i \in bonuses : ~on(i)))
            => /\ r.rawScore.num = 100 * r.rawScore.den
               /\ "rank" \in DOMAIN r
               /\ r.rank = "A"

\* three active core tasks, all the tasks there are, all checked: each is
\* worth a third of 100
C11_Witness ==
  /\ last.op = "calcScore"
  /\ Len(last.tasks) = 3
  /\ last.result.coreTotal = 3
  /\ last.result.coreDone = 3
  /\ last.result.rawScore = fraction(300, 3)
  /\ last.result.rank = "A"

\* C12: calcRank answers SSS from 150 on, else SS from 120 on, else S from
\* 101 on, else A; 100, 101, 120, 150 and 151 give A, S, SS, SSS and SSS; and
\* no score at or above the one ranked gets a lower rank.
C12_RankThresholds ==
  last.op = "calcRank"
    => LET x == last.score
           r == last.result
           order == [A |-> 1, S |-> 2, SS |-> 3, SSS |-> 4]
       IN /\ r \in {"A", "S", "SS", "SSS"}
          /\ (r = "SSS") = (x.num >= 150 * x.den)
          /\ (r = "SS") = (x.num >= 120 * x.den /\ x.num < 150 * x.den)
          /\ (r = "S") = (x.num >= 101 * x.den /\ x.num < 120 * x.den)
          /\ (r = "A") = (x.num < 101 * x.den)
          /\ x = fraction(100, 1) => r = "A"
          /\ x = fraction(101, 1) => r = "S"
          /\ x = fraction(120, 1) => r = "SS"
          /\ x = fraction(150, 1) => r = "SSS"
          /\ x = fraction(151, 1) => r = "SSS"
          /\ \A y \in RankScores :
               y.num * x.den >= x.num * y.den => order[calcRank(y)] >= order[r]

\* the score 101 has been ranked S, and the score 100 2/3 below it ranks A
C12_Witness ==
  /\ last.op = "calcRank"
  /\ last.score = fraction(101, 1)
  /\ last.result = "S"
  /\ calcRank(fraction(302, 3)) = "A"

\* C13: rawScore is coreDone * (100 / coreTotal) plus the points of the
\* active non-core tasks that are checked, with no upper limit on that sum;
\* coreDone counts the active core tasks that are checked and lies between 0
\* and coreTotal; and the result is the one that calcScore gives for the
\* active tasks alone with the checks of their ids alone.
C13_RawScore ==
  last.op = "calcScore"
    => LET tasks == last.tasks
           checks == last.dayLog.checks
           r == last.result
           on(i) == tasks[i].id \in DOMAIN checks /\ checks[tasks[i].id]
           cores == {i \in DOMAIN tasks : tasks[i].isActive /\ tasks[i].isCore}
           bonuses == {i \in DOMAIN tasks : tasks[i].isActive /\ ~tasks[i].isCore /\ on(i)}
           bonus == total([i \in DOMAIN tasks |-> IF i \in bonuses THEN tasks[i].points ELSE 0])
           activeIds == {tasks[i].id : i \in {j \in DOMAIN tasks : tasks[j].isActive}}
           activeOnly == SelectSeq(tasks, isActiveTask)
           ownChecks == [k \in DOMAIN checks \cap activeIds |-> checks[k]]
       IN /\ r.coreTotal = Cardinality(cores)
          /\ r.coreDone = Cardinality({i \in cores : on(i)})
          /\ 0 <= r.coreDone
          /\ r.coreDone <= r.coreTotal
          /\ r.rawScore.den = (IF cores = {} THEN 1 ELSE r.coreTotal)
          /\ r.rawScore.num = (IF cores = {} THEN 0 ELSE r.coreDone * 100) + bonus * r.rawScore.den
          /\ calcScore(activeOnly, [last.dayLog EXCEPT !.checks = ownChecks]) = r

\* two checked bonus tasks of 10 points and a checked inactive task: the
\* score is 20
C13_Witness ==
  /\ last.op = "calcScore"
  /\ last.result.coreTotal = 0
  /\ last.result.rawScore = fraction(20, 1)
  /\ \E i \in DOMAIN last.tasks :
       /\ ~last.tasks[i].isActive
       /\ last.tasks[i].points = 10
       /\ last.tasks[i].id \in DOMAIN last.dayLog.checks
       /\ last.dayLog.checks[last.tasks[i].id]

----------------------------------------------------------------------------
(* Properties of the task registry *)

\* C14: every task that loadTasks returns has points 0 when its isCore is
\* true and a whole number of points from 1 to 10 when its isCore is false,
\* and a stored non-core task with points 37 comes back with points 10.
C14_PointsNormalized ==
  [][(last'.op = "loadTasks" /\ ~last'.threw)
       => LET data == safeJsonParse(getItem(localStorage, KEYS_tasks))
              r == last'.result
          IN \A i \in DOMAIN r :
               /\ "points" \in DOMAIN r[i]
               /\ r[i].points.type = "number"
               /\ "tenths" \notin DOMAIN r[i].points
               /\ ("isCore" \in DOMAIN r[i] /\ r[i].isCore) => r[i].points.n = 0
               /\ ~("isCore" \in DOMAIN r[i] /\ r[i].isCore)
                    => (1 <= r[i].points.n /\ r[i].points.n <= 10)
               /\ (/\ "points" \in DOMAIN data.items[i]
                   /\ data.items[i].points = jsNumber(37)
                   /\ ~data.items[i].isCore)
                    => r[i].points.n = 10]_vars

\* C15: loadTasks returns as many tasks as the stored array holds, with the
\* ids and the isActive flags in the stored order; an active core task stays
\* core when at most 4 active core tasks precede it in the stored array and
\* is returned as non-core otherwise, so at most 5 returned tasks are active
\* and core; every other task keeps its isCore flag.
C15_CoreCap ==
  [][(last'.op = "loadTasks" /\ ~last'.threw)
       => LET data == safeJsonParse(getItem(localStorage, KEYS_tasks))
              stored == IF data.type = "array" THEN data.items ELSE <<>>
              r == last'.result
              core(t) == "isCore" \in DOMAIN t /\ t.isCore
              active(t) == "isActive" \in DOMAIN t /\ t.isActive
              before(i) == Cardinality({j \in 1..(i - 1) : core(stored[j]) /\ active(stored[j])})
          IN /\ Len(r) = Len(stored)
             /\ Cardinality({i \in DOMAIN r : core(r[i]) /\ active(r[i])}) <= 5
             /\ \A i \in DOMAIN stored :
                  /\ ("id" \in DOMAIN stored[i]) => r[i].id = stored[i].id
                  /\ active(r[i]) = active(stored[i])
                  /\ core(r[i]) = IF active(stored[i]) /\ core(stored[i])
                                  THEN before(i) < 5
                                  ELSE core(stored[i])]_vars

\* seven stored tasks, six of them active core tasks and an inactive core
\* task in third place: the first five active ones are still core, the last
\* one is not, the inactive one is
C15_Witness ==
  /\ last.op = "loadTasks"
  /\ ~last.threw
  /\ Len(last.result) = 7
  /\ \A i \in {1, 2, 4, 5, 6} : last.result[i].isCore /\ last.result[i].isActive
  /\ last.result[3].isCore /\ ~last.result[3].isActive
  /\ ~last.result[7].isCore /\ last.result[7].isActive
  /\ \A i \in 1..7 : last.result[i].id = storedId(i)

\* C16: after loadTasks has returned a list from a stored array, the tasks
\* key holds that list, and another loadTasks returns the same list and
\* writes nothing.
C16_SelfHealing ==
  (/\ last.op = "loadTasks"
   /\ ~last.threw
   /\ safeJsonParse(getItem(localStorage, KEYS_tasks)).type = "array")
    => /\ safeJsonParse(getItem(localStorage, KEYS_tasks)).items = last.result
       /\ loadTasks(localStorage) = [threw |-> FALSE, result |-> last.result, ls |-> localStorage]

\* C17: loadTasks never throws; and when the tasks key is missing or holds
\* the empty string, a text that is not JSON or JSON that is not an array, it
\* returns the empty list and leaves storage as it was.
C17_NeverFails ==
  [][last'.op = "loadTasks"
       => /\ ~last'.threw
          /\ (\/ KEYS_tasks \notin DOMAIN localStorage
              \/ localStorage[KEYS_tasks].kind # "json"
              \/ localStorage[KEYS_tasks].value.type # "array")
               => /\ last'.result = <<>>
                  /\ localStorage' = localStorage]_vars

\* C18: after saveTasks the tasks key holds a list in which at most 5 tasks
\* are active and core, every core task has points 0 and every non-core task
\* has a whole number of points from 1 to 10.
C18_SaveNormalizes ==
  last.op = "saveTasks"
    => LET saved == safeJsonParse(getItem(localStorage, KEYS_tasks)).items
       IN /\ Cardinality({i \in DOMAIN saved : saved[i].isCore /\ saved[i].isActive}) <= 5
          /\ \A i \in DOMAIN saved :
               /\ saved[i].points.type = "number"
               /\ "tenths" \notin DOMAIN saved[i].points
               /\ saved[i].isCore => saved[i].points.n = 0
               /\ ~saved[i].isCore => (1 <= saved[i].points.n /\ saved[i].points.n <= 10)

----------------------------------------------------------------------------
(* Properties of the mounted application *)

\* the task list that storage holds
persistedTasks ==
  IF KEYS_tasks \in DOMAIN localStorage
  THEN safeJsonParse(getItem(localStorage, KEYS_tasks)).items
  ELSE <<>>

\* C23: in the Tasks view a submit with a blank title, and an add, an edit or
\* an activation that would make more than 5 tasks both active and core, is
\* blocked: the task list stays as it was, in memory and in storage.
C23_BlockedLeavesState ==
  [][LET coreActiveOthers(id) ==
           Cardinality({i \in DOMAIN views.tasks :
                          /\ views.tasks[i].id # id
                          /\ views.tasks[i].isActive
                          /\ views.tasks[i].isCore})
         blankSubmit ==
           /\ last'.op = "Tasks.submit"
           /\ trim(last'.draft.title) = ""
         overCapSubmit ==
           /\ last'.op = "Tasks.submit"
           /\ last'.draft.isCore
           /\ last'.draft.isActive
           /\ coreActiveOthers(views.editingId) + 1 > 5
         overCapActivate ==
           /\ last'.op = "Tasks.toggleActive"
           /\ \E i \in DOMAIN views.tasks :
                /\ views.tasks[i].id = last'.id
                /\ ~views.tasks[i].isActive
                /\ views.tasks[i].isCore
           /\ coreActiveOthers(last'.id) + 1 > 5
     IN (calls' # calls /\ (blankSubmit \/ overCapSubmit \/ overCapActivate))
          => /\ views'.tasks = views.tasks
             /\ localStorage' = localStorage]_vars

\* a sixth active core task was submitted and the list holds the five it held
C23_Witness ==
  /\ last.op = "Tasks.submit"
  /\ last.draft.isCore
  /\ last.draft.isActive
  /\ trim(last.draft.title) = "x"
  /\ Cardinality({i \in DOMAIN views.tasks :
                    views.tasks[i].isActive /\ views.tasks[i].isCore}) = 5
  /\ \A i \in DOMAIN views.tasks : views.tasks[i].title # "x"
  /\ persistedTasks = views.tasks

\* C24: from a normalized registry, whatever the Tasks view and the loads of
\* the Today view do, the stored task list stays normalized: at most 5 tasks
\* active and core, points 0 on every core task, a whole number of points
\* from 1 to 10 on every other task.
C24_RegistryStaysNormalized ==
  /\ Cardinality({i \in DOMAIN persistedTasks :
                    persistedTasks[i].isActive /\ persistedTasks[i].isCore}) <= 5
  /\ \A i \in DOMAIN persistedTasks :
       /\ persistedTasks[i].points.type = "number"
       /\ "tenths" \notin DOMAIN persistedTasks[i].points
       /\ persistedTasks[i].isCore => persistedTasks[i].points.n = 0
       /\ ~persistedTasks[i].isCore
            => (1 <= persistedTasks[i].points.n /\ persistedTasks[i].points.n <= 10)

\* a bonus task submitted with 37 points is stored with 10, next to five
\* active core tasks
C24_Witness ==
  /\ last.op = "Tasks.submit"
  /\ last.draft.points = finite(37, 0)
  /\ ~last.draft.isCore
  /\ \E i \in DOMAIN persistedTasks :
       /\ persistedTasks[i].title = "x"
       /\ persistedTasks[i].points.n = 10
  /\ Cardinality({i \in DOMAIN persistedTasks :
                    persistedTasks[i].isActive /\ persistedTasks[i].isCore}) = 5

\* C30: with both views mounted, an add, an edit, a toggleActive or a moveTask
\* of the Tasks view never removes from storage a task that storage held
\* immediately before it.
C30_NoStoredTaskLost ==
  [][(calls' # calls /\ last'.op \in {"Tasks.submit", "Tasks.toggleActive", "Tasks.moveTask"})
       => idsOf(persistedTasks) \subseteq idsOf(persistedTasks')]_vars

====
